---- MODULE Spec2Model ----
(***************************************************************************)
(* Model of the two SVG trimming scripts of the repository:                *)
(*   src/assets/trim_svg.py        (ElementTree variant, padding 5)        *)
(*   src/assets/trim_svg_fixed.py  (lxml variant, padding 10)              *)
(*                                                                         *)
(* Numbers are integers (the floats of the scripts without rounding).      *)
(* An attribute text is a sequence of tokens; a token is a well-formed     *)
(* number ("10"), a number followed by a unit ("10px") or text with no     *)
(* digit in it ("abc").  A transform attribute is a sequence of transform  *)
(* functions, a path's d attribute a sequence of command segments.         *)
(* The document is the sequence of its nodes in document (pre-)order;      *)
(* node 1 is the root <svg>, every other node names its parent.            *)
(***************************************************************************)
EXTENDS Integers, Sequences, FiniteSets, TLC

(* ------------------------------ bounds --------------------------------- *)
\* largest number of nodes below the root in a document
MaxNodes == 2
\* number of times trim_svg is run in a row (the output of a run is the
\* input of the next)
MaxRuns == 2

(* ------------------------- program constants --------------------------- *)
\* float('inf'), the start value of the fold of calculate_content_bounds;
\* larger than every coordinate of the model
Inf == 1000000
\* padding of trim_svg.py
padding_orig == 5
\* padding of trim_svg_fixed.py
padding_fixed == 10

(* --------------------------- attribute text ---------------------------- *)
Num(n) == [k |-> "num", v |-> n]
Unit(n) == [k |-> "unit", v |-> n]
Junk == [k |-> "junk", v |-> 0]

\* the text of a single number
T(n) == <<Num(n)>>

\* float(text): the value of a text that is exactly one well-formed number,
\* ValueError (ok = FALSE) for every other text, the empty one included
PyFloat(text) ==
    IF Len(text) = 1 /\ text[1].k = "num"
    THEN [ok |-> TRUE, v |-> text[1].v]
    ELSE [ok |-> FALSE, v |-> 0]

\* float(element.get(name, 0)): a missing attribute is the number 0
FloatAttr(e, name) ==
    IF name \in DOMAIN e.attrs
    THEN PyFloat(e.attrs[name])
    ELSE [ok |-> TRUE, v |-> 0]

\* re.findall(r'[-+]?\d*\.?\d+', text): the numbers found in the text, in
\* order; the digits of "10px" are found, "abc" holds none
RECURSIVE FindNumbers(_)
FindNumbers(text) ==
    IF text = <<>> THEN <<>>
    ELSE (IF Head(text).k \in {"num", "unit"} THEN <<Head(text).v>> ELSE <<>>)
         \o FindNumbers(Tail(text))

\* element.get(name, ''): the text of an attribute, empty when missing
TextAttr(e, name) ==
    IF name \in DOMAIN e.attrs THEN e.attrs[name] ELSE <<>>

(* ------------------------------ min / max ------------------------------ *)
\* Python's min(a, b) and max(a, b) of two numbers
PyMin_first(a, b) == a
PyMin(a, b) == IF b < a THEN b ELSE a
PyMax(a, b) == IF b > a THEN b ELSE a

\* min(xs) and max(xs) of a non-empty list, left to right
RECURSIVE ListMin(_)
ListMin(xs) ==
    IF Len(xs) = 1 THEN xs[1] ELSE PyMin(ListMin(SubSeq(xs, 1, Len(xs) - 1)), xs[Len(xs)])
RECURSIVE ListMax(_)
ListMax(xs) ==
    IF Len(xs) = 1 THEN xs[1] ELSE PyMax(ListMax(SubSeq(xs, 1, Len(xs) - 1)), xs[Len(xs)])

\* xs[start::2]
EveryOther(xs, start) ==
    [j \in 1..((Len(xs) - start + 2) \div 2) |-> xs[start + 2 * (j - 1)]]

(* ------------------------------ rectangles ----------------------------- *)
None == [kind |-> "None"]
ValueError == [kind |-> "ValueError"]
Rect(a, b, c, d) ==
    [kind |-> "rect", min_x |-> a, max_x |-> b, min_y |-> c, max_y |-> d]
Shift(r, tx, ty) ==
    Rect(r.min_x + tx, r.max_x + tx, r.min_y + ty, r.max_y + ty)

(* ------------------------------- transform ----------------------------- *)
\* the regular expression translate\s*\(\s*(num)\s*,?\s*(num)?\s*\) matches
\* a translate function of one or two well-formed numbers
TranslateMatches(item) ==
    /\ item.f = "translate"
    /\ Len(item.args) \in {1, 2}
    /\ \A j \in 1..Len(item.args) : item.args[j].k = "num"

\* re.search: the first match in the attribute, 0 when there is none
TranslateSearch(transform_str) ==
    IF \E j \in 1..Len(transform_str) : TranslateMatches(transform_str[j])
    THEN CHOOSE j \in 1..Len(transform_str) :
            /\ TranslateMatches(transform_str[j])
            /\ \A h \in 1..(j - 1) : ~TranslateMatches(transform_str[h])
    ELSE 0

\* group(2) of the match, 0 when the group is absent
TranslateTy_same(args) == IF Len(args) = 2 THEN args[2].v ELSE args[1].v
TranslateTy(args) == IF Len(args) = 2 THEN args[2].v ELSE 0

\* parse_transform of trim_svg_fixed.py
parse_transform(transform_str) ==
    IF transform_str = <<>> THEN <<0, 0>>
    ELSE LET m == TranslateSearch(transform_str) IN
         IF m # 0
         THEN <<transform_str[m].args[1].v, TranslateTy(transform_str[m].args)>>
         ELSE <<0, 0>>

(* --------------------------------- tags -------------------------------- *)
\* the characters of the tag names
Chars ==
    [svg |-> <<"s","v","g">>, g |-> <<"g">>, text |-> <<"t","e","x","t">>,
     rect |-> <<"r","e","c","t">>, circle |-> <<"c","i","r","c","l","e">>,
     ellipse |-> <<"e","l","l","i","p","s","e">>, path |-> <<"p","a","t","h">>,
     line |-> <<"l","i","n","e">>, polygon |-> <<"p","o","l","y","g","o","n">>,
     polyline |-> <<"p","o","l","y","l","i","n","e">>,
     defs |-> <<"d","e","f","s">>,
     metadata |-> <<"m","e","t","a","d","a","t","a">>,
     title |-> <<"t","i","t","l","e">>, desc |-> <<"d","e","s","c">>,
     script |-> <<"s","c","r","i","p","t">>, style |-> <<"s","t","y","l","e">>]

\* tag.endswith(suffix)
EndsWith(tag, suffix) ==
    LET t == Chars[tag]
        s == Chars[suffix]
    IN  /\ Len(s) <= Len(t)
        /\ SubSeq(t, Len(t) - Len(s) + 1, Len(t)) = s

\* ['defs', 'metadata', 'title', 'desc', 'script', 'style']
NonVisualTags == {"defs", "metadata", "title", "desc", "script", "style"}

(* ------------------- path data, trim_svg.py (Policy A) ------------------ *)
\* the parser's state: the cursor and the coordinates emitted so far
PathStart == [x |-> 0, y |-> 0, xs |-> <<>>, ys |-> <<>>]
Emit(st, px, py) == [st EXCEPT !.xs = Append(@, px), !.ys = Append(@, py)]
MoveTo(st, px, py) == Emit([st EXCEPT !.x = px, !.y = py], px, py)

\* the number of operands a loop of parse_path_bounds takes per turn
Arity(letter) ==
    CASE letter \in {"M", "L", "T", "m", "l"} -> 2
      [] letter \in {"H", "V", "h", "v"} -> 1
      [] letter \in {"C", "c"} -> 6
      [] letter \in {"S", "Q"} -> 4
      [] letter = "A" -> 7
      [] OTHER -> 1

\* the body of a loop for one complete operand group; c[i + 1] is coords[i]
PathStep(letter, c, i, st) ==
    CASE letter \in {"M", "L", "T"} -> MoveTo(st, c[i + 1], c[i + 2])
      [] letter = "H" -> MoveTo(st, c[i + 1], st.y)
      [] letter = "V" -> MoveTo(st, st.x, c[i + 1])
      [] letter = "C" ->
            [x |-> c[i + 5], y |-> c[i + 6],
             xs |-> st.xs \o <<c[i + 1], c[i + 3], c[i + 5]>>,
             ys |-> st.ys \o <<c[i + 2], c[i + 4], c[i + 6]>>]
      [] letter \in {"S", "Q"} ->
            [x |-> c[i + 3], y |-> c[i + 4],
             xs |-> st.xs \o <<c[i + 1], c[i + 3]>>,
             ys |-> st.ys \o <<c[i + 2], c[i + 4]>>]
      [] letter = "A" -> MoveTo(st, c[i + 6], c[i + 7])
      [] letter \in {"m", "l"} -> MoveTo(st, st.x + c[i + 1], st.y + c[i + 2])
      [] letter = "h" -> MoveTo(st, st.x + c[i + 1], st.y)
      [] letter = "v" -> MoveTo(st, st.x, st.y + c[i + 1])
      [] letter = "c" ->
            [x |-> st.x + c[i + 5], y |-> st.y + c[i + 6],
             xs |-> st.xs \o <<st.x + c[i + 1], st.x + c[i + 3], st.x + c[i + 5]>>,
             ys |-> st.ys \o <<st.y + c[i + 2], st.y + c[i + 4], st.y + c[i + 6]>>]
      [] OTHER -> st

\* the commands parse_path_bounds has a branch for
HandledCommands ==
    {"M", "L", "H", "V", "C", "S", "Q", "T", "A", "m", "l", "h", "v", "c"}

\* for i in range(i, len(coords), arity): if i + arity - 1 < len(coords): ...
RECURSIVE PathGroups(_, _, _, _)
PathGroups(letter, c, i, st) ==
    IF i >= Len(c) THEN st
    ELSE PathGroups(letter, c, i + Arity(letter),
                    IF i + Arity(letter) - 1 < Len(c)
                    THEN PathStep(letter, c, i, st) ELSE st)

\* one command segment: its letter and the numbers that follow it
PathCommand(seg, st) ==
    IF seg.c \notin HandledCommands THEN st
    ELSE IF seg.c \in {"M", "m"}
    THEN (IF Len(seg.ops) >= 2
          THEN PathGroups(seg.c, seg.ops, 2, PathStep(seg.c, seg.ops, 0, st))
          ELSE st)
    ELSE PathGroups(seg.c, seg.ops, 0, st)

RECURSIVE PathCommands(_, _)
PathCommands(path_data, st) ==
    IF path_data = <<>> THEN st
    ELSE PathCommands(Tail(path_data), PathCommand(Head(path_data), st))

\* "if not x_coords or not y_coords: return None", else the min and max
CoordsBounds(st) ==
    IF st.xs = <<>> \/ st.ys = <<>> THEN None
    ELSE Rect(ListMin(st.xs), ListMax(st.xs), ListMin(st.ys), ListMax(st.ys))

\* parse_path_bounds of trim_svg.py
parse_path_bounds(path_data) ==
    CoordsBounds(PathCommands(path_data, PathStart))

(* ---------------- path data, trim_svg_fixed.py (Policy B) --------------- *)
\* re.findall over the whole d attribute: every number, the letters ignored
RECURSIVE PathNumbers(_)
PathNumbers(path_data) ==
    IF path_data = <<>> THEN <<>>
    ELSE Head(path_data).ops \o PathNumbers(Tail(path_data))

\* for i in range(0, len(numbers) - 1, 2): numbers[i] is an x, numbers[i + 1]
\* the y that goes with it
PairUp(numbers) ==
    [xs |-> [j \in 1..(Len(numbers) \div 2) |-> numbers[2 * j - 1]],
     ys |-> [j \in 1..(Len(numbers) \div 2) |-> numbers[2 * j]]]

\* get_path_bounds of trim_svg_fixed.py
get_path_bounds(path_data) ==
    CoordsBounds(PairUp(PathNumbers(path_data)))

(* -------------------- shape bounds, trim_svg.py ------------------------- *)
\* the four float(element.get(...)) of a branch, in order: the numbers, or
\* ok = FALSE when one of them raises
Floats4(e, a, b, c, d) ==
    [ok |-> FloatAttr(e, a).ok /\ FloatAttr(e, b).ok
            /\ FloatAttr(e, c).ok /\ FloatAttr(e, d).ok,
     a |-> FloatAttr(e, a).v, b |-> FloatAttr(e, b).v,
     c |-> FloatAttr(e, c).v, d |-> FloatAttr(e, d).v]

\* the bounds of the shapes from their numbers f (x, y, width, height; cx, cy,
\* r, r; cx, cy, rx, ry; x1, y1, x2, y2), shifted by (tx, ty)
RectBounds(f, tx, ty) ==
    IF f.ok THEN Rect(f.a + tx, f.a + f.c + tx, f.b + ty, f.b + f.d + ty)
    ELSE ValueError
CircleBounds(f, tx, ty) ==
    IF f.ok THEN Rect(f.a - f.c + tx, f.a + f.c + tx, f.b - f.c + ty, f.b + f.c + ty)
    ELSE ValueError
EllipseBounds(f, tx, ty) ==
    IF f.ok THEN Rect(f.a - f.c + tx, f.a + f.c + tx, f.b - f.d + ty, f.b + f.d + ty)
    ELSE ValueError
LineBounds(f, tx, ty) ==
    IF f.ok
    THEN Rect(PyMin(f.a, f.c) + tx, PyMax(f.a, f.c) + tx,
              PyMin(f.b, f.d) + ty, PyMax(f.b, f.d) + ty)
    ELSE ValueError

\* the bounds of a list of coordinates taken as x, y, x, y, ...
PointsBounds(coords) ==
    CoordsBounds([xs |-> EveryOther(coords, 1), ys |-> EveryOther(coords, 2)])

\* the if / elif chain of get_element_bounds, before the transform
LocalBounds(e) ==
    IF EndsWith(e.tag, "rect")
    THEN RectBounds(Floats4(e, "x", "y", "width", "height"), 0, 0)
    ELSE IF EndsWith(e.tag, "circle")
    THEN CircleBounds(Floats4(e, "cx", "cy", "r", "r"), 0, 0)
    ELSE IF EndsWith(e.tag, "ellipse")
    THEN EllipseBounds(Floats4(e, "cx", "cy", "rx", "ry"), 0, 0)
    ELSE IF EndsWith(e.tag, "path")
    THEN (IF TextAttr(e, "d") # <<>> THEN parse_path_bounds(e.attrs.d) ELSE None)
    ELSE IF EndsWith(e.tag, "line")
    THEN LineBounds(Floats4(e, "x1", "y1", "x2", "y2"), 0, 0)
    ELSE IF EndsWith(e.tag, "polygon") \/ EndsWith(e.tag, "polyline")
    THEN (IF TextAttr(e, "points") # <<>>
          THEN PointsBounds(FindNumbers(e.attrs.points))
          ELSE None)
    ELSE None

\* "if transform and bounds": the node's own translate, when the regular
\* expression finds one, shifts the bounds
OwnTranslate(bounds, transform) ==
    IF bounds.kind = "rect" /\ transform # <<>> /\ TranslateSearch(transform) # 0
    THEN Shift(bounds, transform[TranslateSearch(transform)].args[1].v,
               TranslateTy(transform[TranslateSearch(transform)].args))
    ELSE bounds

\* get_element_bounds of trim_svg.py: the node's own translate is applied,
\* and no other
get_element_bounds(e) ==
    OwnTranslate(LocalBounds(e), TextAttr(e, "transform"))

(* ------------------ tree walk, trim_svg.py ------------------------------ *)
\* any(element.tag.endswith(tag) for tag in [...])
IsSkipped(e) == \E t \in NonVisualTags : EndsWith(e.tag, t)

\* the accumulator of the loop of calculate_content_bounds
FoldStart ==
    [min_x |-> Inf, max_x |-> -Inf, min_y |-> Inf, max_y |-> -Inf,
     has_content |-> FALSE, raised |-> FALSE]

\* "if bounds:" and the four min / max of the loop
Include(acc, bounds) ==
    IF bounds.kind = "ValueError" THEN [acc EXCEPT !.raised = TRUE]
    ELSE IF bounds.kind = "None" THEN acc
    ELSE [min_x |-> PyMin(acc.min_x, bounds.min_x),
          max_x |-> PyMax(acc.max_x, bounds.max_x),
          min_y |-> PyMin(acc.min_y, bounds.min_y),
          max_y |-> PyMax(acc.max_y, bounds.max_y),
          has_content |-> TRUE, raised |-> FALSE]

\* one turn of the loop: a skipped element and an element without bounds
\* leave the accumulator alone, an exception ends the loop
FoldElement(acc, e) ==
    IF acc.raised \/ IsSkipped(e) THEN acc
    ELSE Include(acc, get_element_bounds(e))

\* for element in root.iter(): every node of the document, in document order
RECURSIVE FoldElements(_, _, _)
FoldElements(d, i, acc) ==
    IF i > Len(d) THEN acc ELSE FoldElements(d, i + 1, FoldElement(acc, d[i]))

\* the viewport of trim_svg.py, from the folded bounds
Viewport(acc, padding) ==
    [kind |-> "viewport",
     x |-> acc.min_x - padding, y |-> acc.min_y - padding,
     width |-> acc.max_x - acc.min_x + 2 * padding,
     height |-> acc.max_y - acc.min_y + 2 * padding]

\* "if not has_content: return None", else the padded viewport
ContentBounds_unchecked(acc) ==
    IF acc.raised THEN ValueError ELSE Viewport(acc, padding_orig)
ContentBounds(acc) ==
    IF acc.raised THEN ValueError
    ELSE IF ~acc.has_content THEN None
    ELSE Viewport(acc, padding_orig)

\* calculate_content_bounds of trim_svg.py
calculate_content_bounds(d) ==
    ContentBounds(FoldElements(d, 1, FoldStart))

(* ------------------ tree walk, trim_svg_fixed.py ------------------------ *)
\* bounds_list.append(...) of a shape, nothing for a shape without bounds
Appended(b) == IF b.kind = "None" THEN <<>> ELSE <<b>>

\* the shifted bounds of a path or of a list of points
Shifted(b, tx, ty) == IF b.kind = "rect" THEN Shift(b, tx, ty) ELSE b

\* "if len(coords) >= 2": the points taken as x, y, x, y, ...
PolyBounds(coords, tx, ty) ==
    IF Len(coords) >= 2 THEN Shifted(PointsBounds(coords), tx, ty) ELSE None

\* the bounds a node itself appends to bounds_list, shifted by the
\* accumulated translation; <<ValueError>> when a float() raises
OwnBounds(e, total_tx, total_ty) ==
    IF e.tag = "path"
    THEN (IF TextAttr(e, "d") # <<>>
          THEN Appended(Shifted(get_path_bounds(e.attrs.d), total_tx, total_ty))
          ELSE <<>>)
    ELSE IF e.tag = "rect"
    THEN <<RectBounds(Floats4(e, "x", "y", "width", "height"), total_tx, total_ty)>>
    ELSE IF e.tag = "circle"
    THEN <<CircleBounds(Floats4(e, "cx", "cy", "r", "r"), total_tx, total_ty)>>
    ELSE IF e.tag = "ellipse"
    THEN <<EllipseBounds(Floats4(e, "cx", "cy", "rx", "ry"), total_tx, total_ty)>>
    ELSE IF e.tag = "line"
    THEN <<LineBounds(Floats4(e, "x1", "y1", "x2", "y2"), total_tx, total_ty)>>
    ELSE IF e.tag \in {"polygon", "polyline"}
    THEN (IF TextAttr(e, "points") # <<>>
          THEN Appended(PolyBounds(FindNumbers(e.attrs.points), total_tx, total_ty))
          ELSE <<>>)
    ELSE <<>>

\* for child in element: the children of node i, in document order
Children(d, i) ==
    LET IsChild(j) == d[j].parent = i IN
    SelectSeq([j \in 1..Len(d) |-> j], IsChild)

\* child_tag not in ['defs', 'metadata', 'title', 'desc', 'script', 'style']
Descends(e) == e.tag \notin NonVisualTags

\* calculate_bounds_recursive of trim_svg_fixed.py, on node i of the document
RECURSIVE calculate_bounds_recursive(_, _, _)
RECURSIVE ChildrenBounds(_, _, _)
RECURSIVE VisitNode(_, _, _)
\* total_tx = parent_transform[0] + tx, total_ty = parent_transform[1] + ty
Total(parent_transform, t) ==
    <<parent_transform[1] + t[1], parent_transform[2] + t[2]>>
calculate_bounds_recursive(d, i, parent_transform) ==
    VisitNode(d, i, Total(parent_transform,
                          parse_transform(TextAttr(d[i], "transform"))))
VisitNode(d, i, total) ==
    OwnBounds(d[i], total[1], total[2]) \o ChildrenBounds(d, Children(d, i), total)
ChildrenBounds(d, cs, total) ==
    IF cs = <<>> THEN <<>>
    ELSE (IF Descends(d[Head(cs)])
          THEN calculate_bounds_recursive(d, Head(cs), total)
          ELSE <<>>)
         \o ChildrenBounds(d, Tail(cs), total)

\* min(b['min_x'] for b in all_bounds) and the three like it
MergeBounds(all_bounds) ==
    Rect(ListMin([j \in 1..Len(all_bounds) |-> all_bounds[j].min_x]),
         ListMax([j \in 1..Len(all_bounds) |-> all_bounds[j].max_x]),
         ListMin([j \in 1..Len(all_bounds) |-> all_bounds[j].min_y]),
         ListMax([j \in 1..Len(all_bounds) |-> all_bounds[j].max_y]))

\* "Add padding" of trim_svg_fixed.py: min_x and min_y are lowered first and
\* the width and height are then taken from the lowered values
PaddedViewport(m, padding) ==
    LET min_x == m.min_x - padding
        min_y == m.min_y - padding
    IN  [kind |-> "viewport", x |-> min_x, y |-> min_y,
         width |-> m.max_x - min_x + 2 * padding,
         height |-> m.max_y - min_y + 2 * padding]

(* ------------------------------ documents ------------------------------ *)
Node(tag, attrs) == [tag |-> tag, parent |-> 0, attrs |-> attrs]
Fn(name, args) == [f |-> name, args |-> args]
Seg(letter, ops) == [c |-> letter, ops |-> ops]
NoAttrs == [a \in {} |-> <<>>]

\* the elements the documents of the model are built from
Elements ==
    { Node("rect", [x |-> T(0), y |-> T(0), width |-> T(100), height |-> T(100)]),
      Node("rect", [x |-> T(10), y |-> T(10), width |-> T(20), height |-> T(30),
                    transform |-> <<Fn("translate", <<Num(5), Num(5)>>)>>]),
      Node("rect", [x |-> T(0), width |-> T(-5), height |-> T(10)]),
      Node("rect", [x |-> T(0), y |-> T(0), width |-> <<Junk>>, height |-> T(10)]),
      Node("circle", [cx |-> T(0), cy |-> T(0), r |-> T(5),
                      transform |-> <<Fn("translate", <<Num(15)>>)>>]),
      Node("ellipse", [cx |-> T(50), cy |-> T(50), rx |-> T(20), ry |-> T(10),
                       transform |-> <<Fn("rotate", <<Num(45)>>),
                                       Fn("translate", <<Num(5), Num(5)>>)>>]),
      Node("line", [x1 |-> T(10), y1 |-> T(0), x2 |-> T(0), y2 |-> T(10),
                    transform |-> <<Fn("translate", <<Unit(5), Num(5)>>)>>]),
      Node("polyline", [points |-> <<Num(0), Num(0), Num(10), Num(20)>>]),
      Node("polygon", [points |-> <<Num(0), Num(0), Num(10), Num(20), Num(50)>>]),
      Node("polygon", [points |-> <<Num(10), Junk, Num(20), Num(30)>>]),
      Node("path", [d |-> <<Seg("M", <<0, 0>>), Seg("L", <<10, 0>>),
                            Seg("L", <<10, 10>>), Seg("L", <<0, 10>>),
                            Seg("Z", <<>>)>>,
                    transform |-> <<Fn("rotate", <<Num(45)>>)>>]),
      Node("path", [d |-> <<Seg("m", <<5, 5, 10, 0>>), Seg("l", <<0, 10>>),
                            Seg("h", <<-20>>), Seg("v", <<5>>),
                            Seg("c", <<1, 1, 2, 2, 30, 3>>)>>]),
      Node("path", [d |-> <<Seg("M", <<10, 10>>), Seg("s", <<5, 5, 10, 10>>),
                            Seg("q", <<5, -20, 10, 0>>), Seg("t", <<10, 10>>),
                            Seg("a", <<5, 5, 0, 0, 1, 10, 10>>)>>]),
      Node("polygon", [points |-> <<Num(5)>>]),
      Node("g", [transform |-> <<Fn("translate", <<Num(3), Num(0)>>)>>]),
      Node("g", [transform |-> <<Fn("rotate", <<Num(45)>>),
                                 Fn("translate", <<Num(5), Num(5)>>)>>]),
      Node("defs", NoAttrs),
      Node("text", [x |-> T(0), y |-> T(0)]) }

\* the root elements of the documents
Roots ==
    { Node("svg", [viewBox |-> <<Num(0), Num(0), Num(200), Num(200)>>]),
      Node("svg", [width |-> <<Unit(100)>>, height |-> <<Unit(100)>>]
                  @@ ("{xml}space" :> <<Junk>>)),
      Node("svg", [width |-> <<Junk>>, height |-> <<Junk>>]),
      Node("svg", [viewBox |-> <<Num(0), Num(0)>>]) }

\* the tags whose nodes have children in the documents of the model
ContainerTags == {"svg", "g", "defs"}

\* node i of d and its ancestors
RECURSIVE AncestorsOrSelf(_, _)
AncestorsOrSelf(d, i) ==
    IF i = 0 THEN {} ELSE {i} \cup AncestorsOrSelf(d, d[i].parent)

\* d is in document order with every parent a container: the parent of a
\* node is the node before it or one of that node's ancestors
WellFormed(d) ==
    \A i \in 2..Len(d) :
        /\ d[i].parent \in AncestorsOrSelf(d, i - 1)
        /\ d[d[i].parent].tag \in ContainerTags

\* the document of root r with the elements es below it, ps their parents
DocumentOf(r, es, ps) ==
    <<r>> \o [j \in 1..Len(es) |-> [es[j] EXCEPT !.parent = ps[j]]]

(* ------------------------------- trim_svg ------------------------------- *)
VARIABLES
    variant,       \* the script that runs: "trim_svg" or "trim_svg_fixed"
    infile,        \* the document in the file at input_path
    doc,           \* the parsed tree
    pc,            \* the position of trim_svg in its body
    current_dims,  \* the dimensions read for the report
    bounds,        \* what the bounds computation returned
    result,        \* "running", "True", "False" or the exception raised
    outfile,       \* the document written to output_path, <<>> while none is
    run            \* the number of this run

vars == <<variant, infile, doc, pc, current_dims, bounds, result, outfile, run>>

\* root.set(name, value) on the root
RootSet(d, new) == [d EXCEPT ![1].attrs = new @@ @]

\* str(number)
Str(n) == <<Num(n)>>

\* [float(x) for x in viewbox.split()]
ViewBoxFloats(viewbox) ==
    IF \A j \in 1..Len(viewbox) : viewbox[j].k = "num"
    THEN [ok |-> TRUE, dims |-> [j \in 1..Len(viewbox) |-> viewbox[j].v]]
    ELSE [ok |-> FALSE, dims |-> <<>>]

\* re.match(r'[-+]?\d*\.?\d+', str(width)): the number the text starts with
LeadingNumber(text) ==
    IF text # <<>> /\ text[1].k \in {"num", "unit"}
    THEN [ok |-> TRUE, v |-> text[1].v]
    ELSE [ok |-> FALSE, v |-> 0]

\* root.get(name, '100')
DimAttr(e, name) == IF name \in DOMAIN e.attrs THEN e.attrs[name] ELSE T(100)

\* "Get current viewBox or dimensions": the dimensions, or the exception
ReadDimensions(v, root) ==
    IF TextAttr(root, "viewBox") # <<>>
    THEN LET f == ViewBoxFloats(root.attrs.viewBox) IN
         [raised |-> IF f.ok THEN "" ELSE "ValueError", dims |-> f.dims]
    ELSE LET w == LeadingNumber(DimAttr(root, "width"))
             h == LeadingNumber(DimAttr(root, "height"))
         IN  IF v = "trim_svg"
             THEN [raised |-> IF w.ok /\ h.ok THEN "" ELSE "AttributeError",
                   dims |-> IF w.ok /\ h.ok THEN <<0, 0, w.v, h.v>> ELSE <<>>]
             ELSE [raised |-> "",
                   dims |-> <<0, 0, IF w.ok THEN w.v ELSE 100,
                                    IF h.ok THEN h.v ELSE 100>>]

\* the first lines of trim_svg: the current dimensions are read
ReadDims ==
    /\ pc = "start"
    /\ current_dims' = ReadDimensions(variant, doc[1]).dims
    /\ pc' = IF ReadDimensions(variant, doc[1]).raised = "" THEN "dims" ELSE "done"
    /\ result' = IF ReadDimensions(variant, doc[1]).raised = "" THEN result
                 ELSE ReadDimensions(variant, doc[1]).raised
    /\ UNCHANGED <<variant, infile, doc, bounds, outfile, run>>

\* bounds = calculate_content_bounds(root), all_bounds =
\* calculate_bounds_recursive(root): the whole tree walk
BoundsList(all_bounds) ==
    IF \E j \in 1..Len(all_bounds) : all_bounds[j].kind = "ValueError"
    THEN ValueError
    ELSE [kind |-> "list", all_bounds |-> all_bounds]

ComputeBounds(v, d) ==
    IF v = "trim_svg" THEN calculate_content_bounds(d)
    ELSE BoundsList(calculate_bounds_recursive(d, 1, <<0, 0>>))

\* an exception of the walk ends the run
CalcBounds ==
    /\ pc = "dims"
    /\ bounds' = ComputeBounds(variant, doc)
    /\ pc' = IF bounds'.kind = "ValueError" THEN "done" ELSE "bounds"
    /\ result' = IF bounds'.kind = "ValueError" THEN "ValueError" ELSE result
    /\ UNCHANGED <<variant, infile, doc, current_dims, outfile, run>>

\* "if not bounds" / "if not all_bounds"
NoBounds(b) ==
    \/ b.kind = "None"
    \/ b.kind = "list" /\ b.all_bounds = <<>>

\* no content: return False
NoContent ==
    /\ pc = "bounds"
    /\ NoBounds(bounds)
    /\ pc' = "done"
    /\ result' = "False"
    /\ UNCHANGED <<variant, infile, doc, current_dims, bounds, outfile, run>>

\* the viewport the run writes
NewViewport_fromCurrent(v, b) ==
    IF v = "trim_svg" THEN [b EXCEPT !.x = @ + current_dims[1]]
    ELSE [PaddedViewport(MergeBounds(b.all_bounds), padding_fixed)
              EXCEPT !.x = @ + current_dims[1]]
NewViewport(v, b) ==
    IF v = "trim_svg" THEN b
    ELSE PaddedViewport(MergeBounds(b.all_bounds), padding_fixed)

\* the attribute names of the root that trim_svg_fixed.py deletes: those that
\* start with '{' or with 'xmlns' and are not 'xmlns'
IsNamespaceKey(name) == name \in {"{xml}space", "xmlns:xlink"}

\* root.set('viewBox', ...), root.set('width', ...), root.set('height', ...);
\* trim_svg_fixed.py then cleans the namespace attributes of the root
SetViewport(d, vp) ==
    RootSet(d, [viewBox |-> <<Num(vp.x), Num(vp.y), Num(vp.width), Num(vp.height)>>,
                width |-> Str(vp.width), height |-> Str(vp.height)])

\* del root.attrib[key] for the namespace attributes; root.set('xmlns', ...)
CleanNamespaces(d) ==
    RootSet([d EXCEPT ![1].attrs =
                 [k \in {n \in DOMAIN @ : ~IsNamespaceKey(n)} |-> @[k]]],
            [xmlns |-> <<Junk>>])

SetAttributes(v, d, vp) ==
    IF v = "trim_svg" THEN SetViewport(d, vp) ELSE CleanNamespaces(SetViewport(d, vp))

Rewrite ==
    /\ pc = "bounds"
    /\ ~NoBounds(bounds)
    /\ doc' = SetAttributes(variant, doc, NewViewport(variant, bounds))
    /\ pc' = "rewritten"
    /\ UNCHANGED <<variant, infile, current_dims, bounds, result, outfile, run>>

\* the tree is serialized and written to output_path
WriteFile ==
    /\ pc = "rewritten"
    /\ outfile' = doc
    /\ pc' = "written"
    /\ UNCHANGED <<variant, infile, doc, current_dims, bounds, result, run>>

\* the closing report reads current_dims[2] and current_dims[3]; return True
Report ==
    /\ pc = "written"
    /\ pc' = "done"
    /\ result' = IF Len(current_dims) >= 4 THEN "True" ELSE "IndexError"
    /\ UNCHANGED <<variant, infile, doc, current_dims, bounds, outfile, run>>

\* trim_svg is run again, on the file the run before wrote
Retrim ==
    /\ pc = "done"
    /\ outfile # <<>>
    /\ run < MaxRuns
    /\ infile' = outfile
    /\ doc' = outfile
    /\ outfile' = <<>>
    /\ run' = run + 1
    /\ pc' = "start"
    /\ result' = "running"
    /\ current_dims' = <<>>
    /\ bounds' = None
    /\ UNCHANGED variant

Init ==
    /\ variant \in {"trim_svg", "trim_svg_fixed"}
    /\ \E n \in 0..MaxNodes, r \in Roots :
          \E es \in [1..n -> Elements], ps \in [1..n -> 1..(n + 1)] :
              /\ \A j \in 1..n : ps[j] <= j
              /\ WellFormed(DocumentOf(r, es, ps))
              /\ infile = DocumentOf(r, es, ps)
    /\ doc = infile
    /\ pc = "start"
    /\ current_dims = <<>>
    /\ bounds = None
    /\ result = "running"
    /\ outfile = <<>>
    /\ run = 1

Next ==
    \/ ReadDims
    \/ CalcBounds
    \/ NoContent
    \/ Rewrite
    \/ WriteFile
    \/ Report
    \/ Retrim

Spec == Init /\ [][Next]_vars

(* ======================================================================== *)
(*                               the claims                                 *)
(* ======================================================================== *)
\* the padding of the variant that runs
Padding == IF variant = "trim_svg" THEN padding_orig ELSE padding_fixed

\* the aggregate rectangle of the walk of the run
Aggregate ==
    IF variant = "trim_svg" THEN FoldElements(doc, 1, FoldStart)
    ELSE MergeBounds(bounds.all_bounds)

\* the sum of the translate offsets of node i and of all its ancestors
RECURSIVE AccumulatedOffset(_, _)
AccumulatedOffset(d, i) ==
    IF i = 0 THEN <<0, 0>>
    ELSE Total(AccumulatedOffset(d, d[i].parent),
               parse_transform(TextAttr(d[i], "transform")))

\* node i has an ancestor with a non-visual tag
HasNonVisualAncestor(d, i) ==
    \E j \in AncestorsOrSelf(d, d[i].parent) : d[j].tag \in NonVisualTags

\* node i is not non-visual and has no non-visual ancestor (the root is
\* always walked)
Reached(d, i) ==
    \A j \in AncestorsOrSelf(d, i) \ {1} : d[j].tag \notin NonVisualTags

\* the rectangles the nodes of the document give to the aggregate of the run
Contributions ==
    IF variant = "trim_svg"
    THEN {get_element_bounds(doc[i]) :
             i \in {j \in 1..Len(doc) : /\ ~IsSkipped(doc[j])
                                        /\ get_element_bounds(doc[j]).kind = "rect"}}
    ELSE {bounds.all_bounds[j] : j \in 1..Len(bounds.all_bounds)}

SetMin(S) == CHOOSE m \in S : \A x \in S : m <= x
SetMax(S) == CHOOSE m \in S : \A x \in S : m >= x
Reverse(xs) == [j \in 1..Len(xs) |-> xs[Len(xs) + 1 - j]]

(* ---------------------------------- C1 ---------------------------------- *)
\* C1: for the aggregate rectangle (min_x, max_x, min_y, max_y) of a run and
\* the padding P of the variant, the root is given the viewBox
\* "min_x - P  min_y - P  (max_x - min_x) + 2P  (max_y - min_y) + 2P" and the
\* width and height of that viewBox; the aggregate (0,0)-(100,100) with
\* P = 10 gives "-10 -10 120 120".
C1_ViewportFromAggregate ==
    pc = "rewritten" =>
        LET a == Aggregate
            P == Padding
            w == (a.max_x - a.min_x) + 2 * P
            h == (a.max_y - a.min_y) + 2 * P
        IN  /\ doc[1].attrs.viewBox =
                  <<Num(a.min_x - P), Num(a.min_y - P), Num(w), Num(h)>>
            /\ doc[1].attrs.width = Str(w)
            /\ doc[1].attrs.height = Str(h)
            /\ (P = 10 /\ a = Rect(0, 100, 0, 100)) =>
                   doc[1].attrs.viewBox = <<Num(-10), Num(-10), Num(120), Num(120)>>

(* ---------------------------------- C2 ---------------------------------- *)
\* the list trim_svg_fixed.py is to collect when every node is shifted by
\* the offsets of itself and of its ancestors
RECURSIVE AccumulatedList(_, _)
AccumulatedList(d, i) ==
    IF i > Len(d) THEN <<>>
    ELSE (IF Reached(d, i) /\ OwnBounds(d[i], 0, 0) # <<>>
          THEN <<Shift(OwnBounds(d[i], 0, 0)[1],
                       AccumulatedOffset(d, i)[1], AccumulatedOffset(d, i)[2])>>
          ELSE <<>>)
         \o AccumulatedList(d, i + 1)

\* C2: the rectangle a shape node gives to the aggregate is its local bounds
\* shifted by the sum of the translate offsets of the node and of all its
\* ancestors up to the root.
C2_OffsetsAccumulate ==
    pc = "bounds" =>
        IF variant = "trim_svg"
        THEN \A i \in 1..Len(doc) :
                (~IsSkipped(doc[i]) /\ LocalBounds(doc[i]).kind = "rect") =>
                    get_element_bounds(doc[i]) =
                        Shift(LocalBounds(doc[i]), AccumulatedOffset(doc, i)[1],
                              AccumulatedOffset(doc, i)[2])
        ELSE bounds.all_bounds = AccumulatedList(doc, 1)

(* ---------------------------------- C3 ---------------------------------- *)
\* the document with every node below a non-visual node emptied
WithoutHidden(d) ==
    [i \in 1..Len(d) |->
        IF HasNonVisualAncestor(d, i)
        THEN [d[i] EXCEPT !.tag = "g", !.attrs = NoAttrs]
        ELSE d[i]]

\* C3: no shape below a non-visual node (defs, metadata, title, desc, script,
\* style) gives anything to the aggregate: the result of the walk is that of
\* the document without the nodes below non-visual nodes.
C3_NonVisualSubtreesSkipped ==
    pc = "bounds" => bounds = ComputeBounds(variant, WithoutHidden(doc))

(* ---------------------------------- C4 ---------------------------------- *)
\* some node of the document yields bounds in the walk of the variant
HasContribution ==
    IF variant = "trim_svg"
    THEN \E i \in 1..Len(doc) :
            ~IsSkipped(doc[i]) /\ get_element_bounds(doc[i]).kind = "rect"
    ELSE calculate_bounds_recursive(doc, 1, <<0, 0>>) # <<>>

\* the tree walk of the run has ended without an exception
WalkFinished ==
    \/ pc \in {"bounds", "rewritten", "written"}
    \/ pc = "done" /\ result \in {"True", "False", "IndexError"}

\* C4: the output file is written, and the root's viewBox, width and height
\* are set, only after the walk has finished and when it produced a
\* rectangle; when no node yields bounds the run returns False, writes no
\* file and leaves the root alone.
C4_WriteOnlyWithContent ==
    /\ outfile # <<>> =>
          pc \in {"written", "done"} /\ WalkFinished /\ HasContribution
    /\ doc # infile =>
          pc \in {"rewritten", "written", "done"} /\ WalkFinished /\ HasContribution
    /\ (WalkFinished /\ ~HasContribution) =>
          outfile = <<>> /\ doc = infile /\ (pc = "done" => result = "False")
    /\ result = "False" => ~HasContribution /\ outfile = <<>> /\ doc = infile

\* a run on a document with a rectangle in it that found no content
C4_NoContentReached ==
    /\ pc = "done"
    /\ result = "False"
    /\ \E i \in 1..Len(doc) : doc[i].tag = "rect"

(* ---------------------------------- C5 ---------------------------------- *)
\* C5: the aggregate is the componentwise min of the min_x / min_y and max of
\* the max_x / max_y of the included rectangles, whatever the order of the
\* nodes, and a node without bounds leaves it unchanged.
C5_AggregateIsMinMax ==
    (pc = "bounds" /\ ~NoBounds(bounds)) =>
        LET a == Aggregate
            C == Contributions
        IN  /\ a.min_x = SetMin({r.min_x : r \in C})
            /\ a.max_x = SetMax({r.max_x : r \in C})
            /\ a.min_y = SetMin({r.min_y : r \in C})
            /\ a.max_y = SetMax({r.max_y : r \in C})
            /\ IF variant = "trim_svg"
               THEN /\ bounds = Viewport(a, padding_orig)
                    /\ FoldElements(Reverse(doc), 1, FoldStart) = a
                    /\ Include(a, None) = a
               ELSE /\ MergeBounds(Reverse(bounds.all_bounds)) = a
                    /\ MergeBounds(bounds.all_bounds \o Appended(None)) = a

\* a walk that combined two rectangles, the second one reaching further left
\* than the first (the root, walked before them, has no bounds)
C5_TwoRectanglesCombined ==
    /\ pc = "bounds"
    /\ ~NoBounds(bounds)
    /\ Cardinality(Contributions) >= 2
    /\ Len(doc) = 3
    /\ IF variant = "trim_svg"
       THEN /\ get_element_bounds(doc[2]).kind = "rect"
            /\ get_element_bounds(doc[2]).min_x > Aggregate.min_x
       ELSE bounds.all_bounds[1].min_x > Aggregate.min_x

Resolved(e) ==
    IF variant = "trim_svg" THEN LocalBounds(e)
    ELSE IF OwnBounds(e, 0, 0) = <<>> THEN None ELSE OwnBounds(e, 0, 0)[1]

\* the text is one well-formed number
IsNumberText(text) == Len(text) = 1 /\ text[1].k = "num"
\* the text is a list of well-formed numbers
IsNumberList(text) == \A j \in 1..Len(text) : text[j].k = "num"

\* the bounds over the complete (x, y) pairs of a list of numbers
PairsBounds(nums) ==
    LET n == Len(nums) \div 2 IN
    Rect(SetMin({nums[2 * j - 1] : j \in 1..n}), SetMax({nums[2 * j - 1] : j \in 1..n}),
         SetMin({nums[2 * j] : j \in 1..n}), SetMax({nums[2 * j] : j \in 1..n}))

\* C7: a polygon and a polyline whose points hold at least one complete
\* (x, y) pair have the min / max over the pairs as local bounds, never the
\* bounds of the line formula; a line has
\* [min(x1,x2), max(x1,x2)] x [min(y1,y2), max(y1,y2)].
C7_EachTagItsFormula ==
    pc = "bounds" =>
        \A i \in 1..Len(doc) :
            LET e == doc[i] IN
            /\ (/\ e.tag \in {"polygon", "polyline"}
                /\ IsNumberList(TextAttr(e, "points"))
                /\ Len(TextAttr(e, "points")) >= 2) =>
                   Resolved(e) = PairsBounds(FindNumbers(e.attrs.points))
            /\ (/\ e.tag = "line"
                /\ \A a \in {"x1", "y1", "x2", "y2"} : IsNumberText(TextAttr(e, a))) =>
                   Resolved(e) =
                       Rect(SetMin({e.attrs.x1[1].v, e.attrs.x2[1].v}),
                            SetMax({e.attrs.x1[1].v, e.attrs.x2[1].v}),
                            SetMin({e.attrs.y1[1].v, e.attrs.y2[1].v}),
                            SetMax({e.attrs.y1[1].v, e.attrs.y2[1].v}))

(* ---------------------------------- C8 ---------------------------------- *)
\* translate(tx) or translate(tx, ty) with well-formed numbers
IsTranslateForm(item) ==
    /\ item.f = "translate"
    /\ Len(item.args) \in {1, 2}
    /\ IsNumberList(item.args)

\* (tx, ty) of a translate form, ty = 0 when absent
FormOffset(item) ==
    <<item.args[1].v, IF Len(item.args) = 2 THEN item.args[2].v ELSE 0>>

\* the variant parses the transform attribute of the node: trim_svg.py does
\* so for a node with bounds only
ParsesTransform(e) ==
    variant = "trim_svg_fixed" \/ LocalBounds(e).kind = "rect"

\* the offset the variant takes from the transform attribute of a node
NodeOffset(e) ==
    IF variant = "trim_svg"
    THEN <<get_element_bounds(e).min_x - LocalBounds(e).min_x,
           get_element_bounds(e).min_y - LocalBounds(e).min_y>>
    ELSE parse_transform(TextAttr(e, "transform"))

\* C8 (as claimed): the offset is (tx, ty) only for a transform attribute that
\* is a single translate(tx[, ty]); every other content, a chain of several
\* transforms holding a translate included, gives (0, 0).
C8_OnlySingleTranslate ==
    pc = "bounds" =>
        \A i \in {j \in 1..Len(doc) : ParsesTransform(doc[j])} :
            LET tr == TextAttr(doc[i], "transform") IN
            IF Len(tr) = 1 /\ IsTranslateForm(tr[1])
            THEN NodeOffset(doc[i]) = FormOffset(tr[1])
            ELSE NodeOffset(doc[i]) = <<0, 0>>

\* C8 (amended): the offset is (tx, ty) of the first translate(tx[, ty]) form
\* in the transform attribute (ty = 0 when absent), alone or in a chain of
\* several transforms; it is (0, 0) when the attribute holds no such form.
C8_FirstTranslateForm ==
    pc = "bounds" =>
        \A i \in {j \in 1..Len(doc) : ParsesTransform(doc[j])} :
            LET tr == TextAttr(doc[i], "transform") IN
            /\ (\A j \in 1..Len(tr) : ~IsTranslateForm(tr[j])) =>
                   NodeOffset(doc[i]) = <<0, 0>>
            /\ \A j \in 1..Len(tr) :
                   (/\ IsTranslateForm(tr[j])
                    /\ \A h \in 1..(j - 1) : ~IsTranslateForm(tr[h])) =>
                       NodeOffset(doc[i]) = FormOffset(tr[j])

\* a walk of a document with a chain of transforms that holds a translate,
\* and with a translate of one operand
C8_ChainWalked ==
    /\ pc = "bounds"
    /\ \E i \in 1..Len(doc) :
          /\ ParsesTransform(doc[i])
          /\ Len(TextAttr(doc[i], "transform")) = 2
          /\ IsTranslateForm(doc[i].attrs.transform[2])
    /\ \E i \in 1..Len(doc) :
          /\ ParsesTransform(doc[i])
          /\ Len(TextAttr(doc[i], "transform")) = 1
          /\ IsTranslateForm(doc[i].attrs.transform[1])
          /\ Len(doc[i].attrs.transform[1].args) = 1

(* ---------------------------------- C9 ---------------------------------- *)
\* the attributes the geometry of a shape is read from
GeometryAttrs(tag) ==
    CASE tag = "rect" -> {"x", "y", "width", "height"}
      [] tag = "circle" -> {"cx", "cy", "r"}
      [] tag = "ellipse" -> {"cx", "cy", "rx", "ry"}
      [] tag = "line" -> {"x1", "y1", "x2", "y2"}
      [] tag \in {"polygon", "polyline"} -> {"points"}
      [] OTHER -> {}

\* a geometry attribute of the node holds malformed numeric text
HasMalformedNumber(e) ==
    \E a \in GeometryAttrs(e.tag) \cap DOMAIN e.attrs :
        IF a = "points" THEN ~IsNumberList(e.attrs[a]) ELSE ~IsNumberText(e.attrs[a])

\* the walk of the variant visits node i
Visited(i) == IF variant = "trim_svg" THEN ~IsSkipped(doc[i]) ELSE Reached(doc, i)

\* the node with its missing geometry attributes written out as 0
ZeroFilled(e) ==
    [e EXCEPT !.attrs = @ @@ [a \in GeometryAttrs(e.tag) \ {"points"} |-> T(0)]]

\* C9: a missing numeric attribute of a shape is read as 0, and malformed
\* numeric text in a geometry attribute of a visited shape ends the run with
\* an error: the walk does not finish, no rectangle comes of it and no file
\* is written.
C9_MalformedNumberAborts ==
    /\ \A i \in 1..Len(doc) :
          (Visited(i) /\ HasMalformedNumber(doc[i])) =>
              ~WalkFinished /\ outfile = <<>>
    /\ \A i \in 1..Len(doc) :
          ~HasMalformedNumber(doc[i]) => Resolved(doc[i]) = Resolved(ZeroFilled(doc[i]))

(* ---------------------------------- C10 --------------------------------- *)
\* C10: every rectangle the resolver produces, and the aggregate of them,
\* has min_x <= max_x and min_y <= max_y, whatever the numbers of the
\* attributes (a negative width, height, r, rx or ry included).
C10_MinBelowMax ==
    (pc = "bounds" /\ ~NoBounds(bounds)) =>
        /\ \A r \in Contributions : r.min_x <= r.max_x /\ r.min_y <= r.max_y
        /\ Aggregate.min_x <= Aggregate.max_x
        /\ Aggregate.min_y <= Aggregate.max_y

(* ---------------------------------- C11 --------------------------------- *)
\* the relative commands and the absolute command each one is the form of
RelativeCommands == {"m", "l", "h", "v", "c", "s", "q", "t", "a"}
Upper(letter) ==
    CASE letter = "m" -> "M" [] letter = "l" -> "L" [] letter = "h" -> "H"
      [] letter = "v" -> "V" [] letter = "c" -> "C" [] letter = "s" -> "S"
      [] letter = "q" -> "Q" [] letter = "t" -> "T" [] letter = "a" -> "A"
      [] OTHER -> letter

\* the operands c with the coordinates of the group at i offset by the cursor:
\* x operands by the cursor's x, y operands by its y; of an arc only the
\* endpoint, its last two operands, is a coordinate
AbsoluteGroup(letter, c, i, st) ==
    [j \in 1..Len(c) |->
        LET k == j - i IN
        IF k < 1 \/ k > Arity(Upper(letter)) THEN c[j]
        ELSE CASE letter = "h" -> c[j] + st.x
               [] letter = "v" -> c[j] + st.y
               [] letter = "a" -> (IF k = 6 THEN c[j] + st.x
                                   ELSE IF k = 7 THEN c[j] + st.y ELSE c[j])
               [] OTHER -> (IF k % 2 = 1 THEN c[j] + st.x ELSE c[j] + st.y)]

\* what a relative command does to a complete group as the claim has it: what
\* the uppercase command does to the group offset by the cursor
ClaimedStep(letter, c, i, st) ==
    PathStep(Upper(letter), AbsoluteGroup(letter, c, i, st), i, st)

RECURSIVE ClaimedGroups(_, _, _, _)
ClaimedGroups(letter, c, i, st) ==
    IF i >= Len(c) THEN st
    ELSE ClaimedGroups(letter, c, i + Arity(Upper(letter)),
                       IF i + Arity(Upper(letter)) - 1 < Len(c)
                       THEN ClaimedStep(letter, c, i, st) ELSE st)

\* a segment of a relative command as the claim has it
ClaimedCommand(seg, st) ==
    IF seg.c = "m"
    THEN (IF Len(seg.ops) >= 2
          THEN ClaimedGroups(seg.c, seg.ops, 2, ClaimedStep(seg.c, seg.ops, 0, st))
          ELSE st)
    ELSE ClaimedGroups(seg.c, seg.ops, 0, st)

\* the elements in xs
Range(xs) == {xs[j] : j \in 1..Len(xs)}

\* C11: in parse_path_bounds of trim_svg.py every segment of a relative
\* command m, l, h, v, c, s, q, t or a emits, for each complete operand group,
\* the points the uppercase command emits for the group offset by the cursor,
\* and moves the cursor to the group's endpoint; the rectangle of the path is
\* the min / max over the points emitted.
C11_RelativeCommandsEmit ==
    (pc = "bounds" /\ variant = "trim_svg") =>
        \A i \in 1..Len(doc) :
            (doc[i].tag = "path" /\ "d" \in DOMAIN doc[i].attrs) =>
                LET d == doc[i].attrs.d
                    end == PathCommands(d, PathStart)
                IN  /\ \A k \in 1..Len(d) :
                           d[k].c \in RelativeCommands =>
                               LET st == PathCommands(SubSeq(d, 1, k - 1), PathStart)
                               IN  PathCommand(d[k], st) = ClaimedCommand(d[k], st)
                    /\ (end.xs # <<>> /\ end.ys # <<>>) =>
                           parse_path_bounds(d) =
                               Rect(SetMin(Range(end.xs)), SetMax(Range(end.xs)),
                                    SetMin(Range(end.ys)), SetMax(Range(end.ys)))

(* ---------------------------------- C12 --------------------------------- *)
\* C12: the bounds of a polygon and a polyline are taken over the complete
\* (x, y) pairs of the points: a trailing number without a y leaves min_x and
\* max_x as they are without it, and points with fewer than two numbers give
\* no bounds.  (A polyline of trim_svg.py never reaches the points branch:
\* its tag ends with 'line'.)
C12_CompletePairsOnly ==
    pc = "bounds" =>
        \A i \in 1..Len(doc) :
            LET e == doc[i] IN
            (/\ e.tag \in {"polygon", "polyline"}
             /\ ~(variant = "trim_svg" /\ EndsWith(e.tag, "line"))
             /\ IsNumberList(TextAttr(e, "points"))) =>
                LET nums == FindNumbers(TextAttr(e, "points")) IN
                IF Len(nums) < 2 THEN Resolved(e) = None
                ELSE Resolved(e) = PairsBounds(nums)
====
